---- MODULE Spec2Model ----
(***************************************************************************)
(* Model of scripts/tokenization.py: the document tokenization pipeline    *)
(* (tokenize_docs, process_chunk) and the query tokenizer                  *)
(* (tokenize_queries).  The file system under config.data_home is part of  *)
(* the state.  Text is modelled as sequences of one-character strings      *)
(* where the code inspects characters (the "##" replacement), and as       *)
(* strings where it only copies or measures them.                          *)
(***************************************************************************)
EXTENDS Integers, Sequences, FiniteSets, TLC

\* ---------------------------------------------------------------- bounds
MaxLines == 5
MaxCpus == 4
MaxRuns == 2
MaxQueries == 2
MaxBad == 1

\* ------------------------------------------------------------ file values
Absent == [exists |-> FALSE, data |-> <<>>]

File(d) == [exists |-> TRUE, data |-> d]

Forms == <<"tsv", "trec", "bert">>

\* ------------------------------------------------------- corpus contents
\* A line of docs/msmarco-docs.tsv is the sequence of its tab-separated
\* fields.  Three shapes: a well-formed record, one with a field missing,
\* one with a field too many.
DocId(k) == "D" \o ToString(k)

GoodLine(k) == <<DocId(k), "", "", "playing">>

ShortLine(k) == <<DocId(k), "u", "t">>

LongLine(k) == <<DocId(k), "u", "t", "playing", "x">>

Shapes == {"good", "short", "long"}

Line(k, shape) ==
  CASE shape = "good" -> GoodLine(k)
    [] shape = "short" -> ShortLine(k)
    [] OTHER -> LongLine(k)

\* corpora of 1..MaxLines lines of which at most MaxBad are malformed
Corpora ==
  UNION {{[k \in 1..n |-> Line(k, s[k])] :
            s \in {t \in [1..n -> Shapes] :
                     Cardinality({k \in 1..n : t[k] # "good"}) <= MaxBad}} :
         n \in 1..MaxLines}

RECURSIVE SumLen(_)
SumLen(fields) ==
  IF fields = <<>> THEN 0 ELSE Len(Head(fields)) + SumLen(Tail(fields))

\* bytes of one line on disk: the fields, the tabs between them, the newline
LineBytes(fields) == SumLen(fields) + (Len(fields) - 1) + 1

\* inf.tell() after `counter` calls of readline()
RECURSIVE Tell(_, _)
Tell(c, counter) ==
  IF counter = 0 THEN 0 ELSE Tell(c, counter - 1) + LineBytes(c[counter])

\* f.seek(offset): the number of whole lines that precede the position
LinesBefore(c, offset) == CHOOSE k \in 0..Len(c) : Tell(c, k) = offset

\* line[:-1].split("\t") of f.readline(); at end of file readline gives ''
EofLine == <<"">>

ReadLine(c, pos) == IF pos < Len(c) THEN c[pos + 1] ELSE EofLine

\* ------------------------------------------------------------- tokenizer
CLS == <<"[", "C", "L", "S", "]">>

SEP == <<"[", "S", "E", "P", "]">>

play == <<"p", "l", "a", "y">>

ing == <<"#", "#", "i", "n", "g">>

playing == <<"p", "l", "a", "y", "i", "n", "g">>

\* the word-piece vocabulary (lowercase=True)
WordPiece(w) ==
  CASE w = "playing" -> <<play, ing>>
    [] w = "" -> <<>>
    [] w = "u" -> << <<"u">> >>
    [] w = "t" -> << <<"t">> >>
    [] w = "x" -> << <<"x">> >>
    [] OTHER -> << <<"[", "U", "N", "K", "]">> >>

RECURSIVE Pieces(_)
Pieces(words) ==
  IF words = <<>> THEN <<>> ELSE WordPiece(Head(words)) \o Pieces(Tail(words))

\* DistilBertTokenizer.tokenize(query): sub-word tokens, no boundary tokens
Tokenize(words) == Pieces(words)

\* BertWordPieceTokenizer.encode(text).tokens: boundary tokens added
EncodeTokens(words) == <<CLS>> \o Pieces(words) \o <<SEP>>

\* ' '.join(tokens)
RECURSIVE Join(_)
Join(tokens) ==
  IF tokens = <<>> THEN <<>>
  ELSE IF Len(tokens) = 1 THEN Head(tokens)
  ELSE Head(tokens) \o <<" ">> \o Join(Tail(tokens))

\* s.replace("##", "")
RECURSIVE Replace(_)
Replace(s) ==
  IF s = <<>> THEN <<>>
  ELSE IF Len(s) >= 2 /\ s[1] = "#" /\ s[2] = "#" THEN Replace(SubSeq(s, 3, Len(s)))
  ELSE <<Head(s)>> \o Replace(Tail(s))

Normalize(bert_text) == Replace(Join(bert_text))

StripLeadingOnly(tokens) == SubSeq(tokens, 2, Len(tokens))

\* sample.tokens[1:-1]
StripBoundary(tokens) == SubSeq(tokens, 2, Len(tokens) - 1)

\* ------------------------------------------------------------------ state
VARIABLES
  corpus,        \* docs/msmarco-docs.tsv, a sequence of lines
  cpus,          \* config.number_of_cpus
  force,         \* "doc_tokenizer" in config.force_steps, for the current run
  pc,            \* position of tokenize_docs
  block_offset,  \* the in-memory offset table of the current run
  chunk,         \* loop variable i of the chunk loop and of the merge loops
  form,          \* index into Forms of the merge loop being executed
  partial,       \* tmp/docs-i, tmp/trec_docs-i, tmp/docs-i.bert
  final,         \* docs/msmarco-docs.tokenized.{tsv,trec,bert}
  cache,         \* block_offset_<cpus>.pkl
  runs,          \* number of invocations of tokenize_docs so far
  trace,         \* the calls and file operations of the current run, in order
  qsrc,          \* queries/msmarco-doc{train,dev}-queries.tsv
  qout,          \* their .tokenized and .bert outputs
  qlog           \* what the last call of tokenize_queries did with each file

dvars == <<corpus, cpus, force, pc, block_offset, chunk, form, partial, final,
           cache, runs, trace>>

qvars == <<qsrc, qout, qlog>>

vars == <<dvars, qvars>>

QFiles == {"train", "dev"}

QKinds == {"tokenized", "bert"}

NotRun == [status |-> "not_reached", forced |-> FALSE, calls |-> 0]

FormSet == {Forms[j] : j \in 1..3}

Chunks == 0..(cpus - 1)

Init ==
  /\ corpus \in Corpora
  /\ cpus \in 1..MaxCpus
  /\ force = FALSE
  /\ pc = "idle"
  /\ block_offset = <<>>
  /\ chunk = 0
  /\ form = 1
  /\ partial = [f \in FormSet |-> [i \in 0..(cpus - 1) |-> Absent]]
  /\ final = [f \in FormSet |-> Absent]
  /\ cache = Absent
  /\ runs = 0
  /\ trace = <<>>
  /\ qsrc = [q \in QFiles |-> Absent]
  /\ qout = [q \in QFiles |-> [e \in QKinds |-> Absent]]
  /\ qlog = [q \in QFiles |-> NotRun]

\* ------------------------------------------------------ chunk arithmetic
NumberOfChunks(N, C) == IF N % C > 0 THEN C - 1 ELSE C

LinesPerChunk(N, C) == N \div NumberOfChunks(N, C)

\* the scan loop of tokenize_docs: one iteration per value of counter; the
\* iteration whose readline() returns '' is the last one
RECURSIVE Scan(_, _, _, _, _)
Scan(c, lpc, counter, current_chunk, table) ==
  LET record == counter % lpc = 0
      table2 == IF record THEN table @@ (current_chunk :> Tell(c, counter)) ELSE table
      chunk2 == IF record THEN current_chunk + 1 ELSE current_chunk
  IN IF counter >= Len(c) THEN table2
     ELSE Scan(c, lpc, counter + 1, chunk2, table2)

ScanOffsets(c, lpc) == Scan(c, lpc, 0, 0, <<>>)

TableSize(table) == Cardinality(DOMAIN table)

\* the test that precedes everything in tokenize_docs
ShortCircuit(fin, forced) == fin["tsv"].exists /\ ~forced

\* ------------------------------------------------------ tokenize_docs: start
\* Lines 97-135: the short-circuit test, the chunk arithmetic, the offset
\* table (single chunk, scan and dump, or load) and the size assertion.
Begin ==
  /\ pc \in {"idle", "returned", "failed"}
  /\ runs < MaxRuns
  /\ runs' = runs + 1
  /\ \E forced \in BOOLEAN :
       LET N == Len(corpus)
           lpc == LinesPerChunk(N, cpus)
       IN /\ force' = forced
          /\ chunk' = 0
          /\ form' = 1
          /\ UNCHANGED <<corpus, cpus, partial, final>>
          /\ IF ShortCircuit(final, forced)
             THEN /\ pc' = "returned"
                  /\ trace' = << <<"short_circuit">> >>
                  /\ UNCHANGED <<block_offset, cache>>
             ELSE IF cpus < 2
             THEN /\ block_offset' = (0 :> 0)
                  /\ pc' = "chunks"
                  /\ trace' = <<>>
                  /\ UNCHANGED cache
             ELSE IF ~cache.exists
             THEN IF lpc = 0
                  THEN \* counter % lines_per_chunk raises ZeroDivisionError
                       /\ block_offset' = <<>>
                       /\ pc' = "failed"
                       /\ trace' = << <<"error", "ZeroDivisionError">> >>
                       /\ UNCHANGED cache
                  ELSE LET table == ScanOffsets(corpus, lpc)
                       IN /\ block_offset' = table
                          /\ cache' = File(table)
                          /\ IF TableSize(table) = cpus
                             THEN pc' = "chunks" /\ trace' = << <<"scan">> >>
                             ELSE /\ pc' = "failed"
                                  /\ trace' = << <<"scan">>, <<"error", "AssertionError">> >>
             ELSE /\ block_offset' = cache.data
                  /\ UNCHANGED cache
                  /\ IF TableSize(cache.data) = cpus
                     THEN pc' = "chunks" /\ trace' = << <<"load">> >>
                     ELSE /\ pc' = "failed"
                          /\ trace' = << <<"load">>, <<"error", "AssertionError">> >>

\* ------------------------------------------------------------ process_chunk
SplitAtLeastFour(fields) == Len(fields) >= 4

\* the unpacking  doc_id, url, title, text = line[:-1].split("\t")
SplitOK(fields) == Len(fields) = 4

\* lines 60-69: seek, no_lines calls of readline, malformed lines skipped
LinesRead(c, table, chunk_no, no_lines) ==
  LET start == LinesBefore(c, table[chunk_no])
  IN [k \in 1..no_lines |-> ReadLine(c, start + k - 1)]

Load(c, table, chunk_no, no_lines) ==
  SelectSeq(LinesRead(c, table, chunk_no, no_lines), SplitOK)

\* " ".join([url, title, text]), kept as its words
FullText(fields) == <<fields[2], fields[3], fields[4]>>

\* sample.tokens[1:-1] of the encoded text
BertText(fields) == StripBoundary(EncodeTokens(FullText(fields)))

\* the line(s) written for one document in each of the three forms
Record(f, fields) ==
  CASE f = "tsv" -> <<fields[1], Normalize(BertText(fields))>>
    [] f = "trec" -> <<"<DOC>", fields[1], Normalize(BertText(fields))>>
    [] OTHER -> <<fields[1], BertText(fields)>>

Output(f, docs) == [k \in 1..Len(docs) |-> Record(f, docs[k])]

AfterChunkEarly(i, C, n) ==
  IF C = 1 THEN "returned"
  ELSE IF i + 2 < n THEN "chunks" ELSE "merge_open"

\* the chunk loop of tokenize_docs: what follows chunk i of n table entries
AfterChunk(i, C, n) ==
  IF C = 1 THEN "returned"
  ELSE IF i + 1 < n THEN "chunks" ELSE "merge_open"

\* process_chunk(chunk, block_offset, lines_per_chunk, config) runs to its end
ProcessChunk ==
  /\ pc = "chunks"
  /\ LET docs == Load(corpus, block_offset, chunk, LinesPerChunk(Len(corpus), cpus))
     IN partial' = [f \in FormSet |->
                      [partial[f] EXCEPT ![chunk] = File(Output(f, docs))]]
  /\ trace' = Append(trace, <<"process_chunk", chunk>>)
  /\ pc' = AfterChunk(chunk, cpus, TableSize(block_offset))
  /\ chunk' = IF AfterChunk(chunk, cpus, TableSize(block_offset)) = "chunks"
              THEN chunk + 1 ELSE 0
  /\ UNCHANGED <<corpus, cpus, force, block_offset, form, final, cache, runs>>

\* process_chunk raises (an I/O error): either before the partial files are
\* opened, or after the first k documents were written to them
ProcessChunkFails ==
  /\ pc = "chunks"
  /\ LET docs == Load(corpus, block_offset, chunk, LinesPerChunk(Len(corpus), cpus))
     IN \/ UNCHANGED partial
        \/ \E k \in 0..Len(docs) :
             partial' = [f \in FormSet |->
                           [partial[f] EXCEPT
                              ![chunk] = File(SubSeq(Output(f, docs), 1, k))]]
  /\ trace' = Append(trace, <<"chunk_failed", chunk>>)
  /\ pc' = "failed"
  /\ UNCHANGED <<corpus, cpus, force, block_offset, chunk, form, final, cache, runs>>

\* ------------------------------------------------------ tokenize_docs: merge
MergeSourceDescending(i) == cpus - 1 - i

\* the partial file read at iteration i of a merge loop
MergeSource(i) == i

\* open(final path, 'w') of the merge loop for Forms[form]
MergeOpen ==
  /\ pc = "merge_open"
  /\ final' = [final EXCEPT ![Forms[form]] = File(<<>>)]
  /\ trace' = Append(trace, <<"open", Forms[form]>>)
  /\ pc' = "merge_copy"
  /\ chunk' = 0
  /\ UNCHANGED <<corpus, cpus, force, block_offset, form, partial, cache, runs>>

\* one iteration of a merge loop: copy the partial file, then remove it
MergeCopy ==
  /\ pc = "merge_copy"
  /\ LET f == Forms[form]
         i == MergeSource(chunk)
     IN IF ~partial[f][i].exists
        THEN /\ pc' = "failed"
             /\ trace' = Append(trace, <<"error", "FileNotFoundError">>)
             /\ UNCHANGED <<chunk, form, partial, final>>
        ELSE /\ final' = [final EXCEPT ![f] = File(final[f].data \o partial[f][i].data)]
             /\ partial' = [partial EXCEPT ![f][i] = Absent]
             /\ trace' = trace \o << <<"copy", f, i>>, <<"remove", f, i>> >>
             /\ IF chunk + 1 < cpus
                THEN chunk' = chunk + 1 /\ UNCHANGED <<pc, form>>
                ELSE IF form < 3
                THEN chunk' = 0 /\ form' = form + 1 /\ pc' = "merge_open"
                ELSE chunk' = 0 /\ form' = 1 /\ pc' = "returned"
  /\ UNCHANGED <<corpus, cpus, force, block_offset, cache, runs>>

\* an I/O error while merging ends the run with what was merged so far
MergeFails ==
  /\ pc \in {"merge_open", "merge_copy"}
  /\ pc' = "failed"
  /\ trace' = Append(trace, <<"error", "OSError">>)
  /\ UNCHANGED <<corpus, cpus, force, block_offset, chunk, form, partial, final,
                 cache, runs>>

\* --------------------------------------------------------- tokenize_queries
QId(k) == "Q" \o ToString(k)

\* a query line is the sequence of its tab-separated fields; a line without
\* a tab has one field
GoodQuery(k) == <<QId(k), "playing">>

BadQuery(k) == <<QId(k)>>

QueryFiles ==
  UNION {{[k \in 1..n |-> IF s[k] THEN GoodQuery(k) ELSE BadQuery(k)] :
            s \in [1..n -> BOOLEAN]} : n \in 0..MaxQueries}

\* the unpacking  q_id, query = line.split("\t")
QuerySplitOK(fields) == Len(fields) = 2

SkipQueriesOneFile(tokenized_exists, bert_exists, forced) ==
  tokenized_exists /\ ~forced

\* the negation of the condition of lines 18-20 (and 38-40)
SkipQueries(tokenized_exists, bert_exists, forced) ==
  tokenized_exists /\ bert_exists /\ ~forced

\* the number of lines before the first one that does not unpack
RECURSIVE GoodPrefix(_)
GoodPrefix(lines) ==
  IF lines = <<>> \/ ~QuerySplitOK(Head(lines)) THEN 0
  ELSE 1 + GoodPrefix(Tail(lines))

BertQueryLine(fields) == <<fields[1], Tokenize(<<fields[2]>>)>>

TokenizedQueryLine(fields) == <<fields[1], Normalize(Tokenize(<<fields[2]>>))>>

\* lines 17-32 for the train file, 37-52 for the dev file: skip, or open both
\* outputs for writing and write a line to each per query until a line fails
\* to unpack
TokenizeFile(src, outs, forced) ==
  IF SkipQueries(outs["tokenized"].exists, outs["bert"].exists, forced)
  THEN [out |-> outs, log |-> [status |-> "skipped", forced |-> forced, calls |-> 0]]
  ELSE LET n == GoodPrefix(src)
       IN [out |-> [e \in QKinds |->
                      IF e = "tokenized"
                      THEN File([k \in 1..n |-> TokenizedQueryLine(src[k])])
                      ELSE File([k \in 1..n |-> BertQueryLine(src[k])])],
           log |-> [status |-> IF n = Len(src) THEN "tokenized" ELSE "ValueError",
                    forced |-> forced, calls |-> n]]

\* one call of tokenize_queries(config): the train file, then the dev file
TokenizeQueries ==
  /\ \E ft \in BOOLEAN, fd \in BOOLEAN :
       IF ~qsrc["train"].exists
       THEN /\ qlog' = [train |-> [status |-> "AssertionError", forced |-> ft, calls |-> 0],
                        dev |-> NotRun]
            /\ UNCHANGED qout
       ELSE LET t == TokenizeFile(qsrc["train"].data, qout["train"], ft)
            IN IF t.log.status = "ValueError"
               THEN /\ qout' = [qout EXCEPT !["train"] = t.out]
                    /\ qlog' = [train |-> t.log, dev |-> NotRun]
               ELSE IF ~qsrc["dev"].exists
               THEN /\ qout' = [qout EXCEPT !["train"] = t.out]
                    /\ qlog' = [train |-> t.log,
                                dev |-> [status |-> "AssertionError", forced |-> fd,
                                         calls |-> 0]]
               ELSE LET d == TokenizeFile(qsrc["dev"].data, qout["dev"], fd)
                    IN /\ qout' = [train |-> t.out, dev |-> d.out]
                       /\ qlog' = [train |-> t.log, dev |-> d.log]
  /\ UNCHANGED <<qsrc, dvars>>

\* the query files and any outputs left by earlier calls
InitQueries ==
  /\ corpus = <<GoodLine(1)>>
  /\ cpus = 1
  /\ force = FALSE
  /\ pc = "idle"
  /\ block_offset = <<>>
  /\ chunk = 0
  /\ form = 1
  /\ partial = [f \in FormSet |-> [i \in 0..0 |-> Absent]]
  /\ final = [f \in FormSet |-> Absent]
  /\ cache = Absent
  /\ runs = 0
  /\ trace = <<>>
  /\ qsrc \in [QFiles -> {Absent} \cup {File(d) : d \in QueryFiles}]
  /\ qout \in [QFiles -> [QKinds -> {Absent, File(<<>>)}]]
  /\ qlog = [q \in QFiles |-> NotRun]

NextQueries == TokenizeQueries

SpecQueries == InitQueries /\ [][NextQueries]_vars

Next ==
  \/ Begin /\ UNCHANGED qvars
  \/ ProcessChunk /\ UNCHANGED qvars
  \/ ProcessChunkFails /\ UNCHANGED qvars
  \/ MergeOpen /\ UNCHANGED qvars
  \/ MergeCopy /\ UNCHANGED qvars
  \/ MergeFails /\ UNCHANGED qvars

\* ------------------------------------------------------- auxiliary notions
RECURSIVE Flatten(_)
Flatten(seqs) == IF seqs = <<>> THEN <<>> ELSE Head(seqs) \o Flatten(Tail(seqs))

Occurrences(e) == Cardinality({k \in 1..Len(trace) : trace[k] = e})

FirstIndex(e) == CHOOSE k \in 1..Len(trace) : trace[k] = e /\ \A j \in 1..(k - 1) : trace[j] # e

NotEof(fields) == fields # EofLine

\* the lines of the corpus that chunk i reads, given its offset and line count
ChunkLines(i) ==
  SelectSeq(LinesRead(corpus, block_offset, i, LinesPerChunk(Len(corpus), cpus)), NotEof)

\* what a complete process_chunk(i) leaves in its partial file of form f
ChunkOutput(f, i) ==
  Output(f, Load(corpus, block_offset, i, LinesPerChunk(Len(corpus), cpus)))

FourFields(fields) == Len(fields) = 4

\* the run computed its offset table by the forward scan
Scanned == trace # <<>> /\ trace[1] = <<"scan">>

\* the run returned normally and was not short-circuited
Completed == pc = "returned" /\ trace # << <<"short_circuit">> >>

\* ----------------------------------------------------------------- claims

\* C1 (as stated): for every corpus and every worker count C >= 2 the offset
\* table computed by the forward scan has exactly the keys 0..C-1, starts at
\* offset 0 and is strictly increasing, so the size assertion passes.
C1_OffsetCompleteness ==
  (cpus >= 2 /\ Scanned) =>
    /\ DOMAIN block_offset = 0..(cpus - 1)
    /\ block_offset[0] = 0
    /\ \A i, j \in DOMAIN block_offset : i < j => block_offset[i] < block_offset[j]
    /\ \A k \in 1..Len(trace) : trace[k] # <<"error", "AssertionError">>

\* C2 (as stated): for every N and C with C <= N, the lines read by chunks
\* 0..C-1, each from its offset and for lines_per_chunk lines, concatenated
\* in chunk order, are exactly the corpus.
C2_ChunkCoverage ==
  (cpus <= Len(corpus) /\ (Scanned \/ (cpus = 1 /\ pc = "chunks"))) =>
    Flatten([k \in 1..cpus |-> ChunkLines(k - 1)]) = corpus

\* C3: when the merge has run to its end, each of the three final files is
\* the concatenation of the partial outputs of chunk 0, 1, ..., C-1 in
\* ascending order, which is the output for the well-formed corpus lines in
\* corpus order; while a merge loop runs, its final file holds the outputs of
\* the chunks merged so far, in ascending order.
C3_OrderPreserved ==
  /\ (Completed /\ cpus >= 2) =>
       \A f \in FormSet :
         /\ final[f].data = Flatten([k \in 1..cpus |-> ChunkOutput(f, k - 1)])
         /\ final[f].data = Output(f, SelectSeq(corpus, FourFields))
  /\ pc = "merge_copy" =>
       final[Forms[form]].data = Flatten([k \in 1..chunk |-> ChunkOutput(Forms[form], k - 1)])

C3_Witness ==
  /\ Completed
  /\ cpus = 3
  /\ Len(corpus) = 5
  /\ Len(final["tsv"].data) >= 4
  /\ \A i \in 0..2 : Occurrences(<<"copy", "tsv", i>>) = 1

\* C4 (as stated): after a run that returned normally, another run with the
\* same inputs and "doc_tokenizer" not forced takes the short-circuit path,
\* calls process_chunk zero times and leaves every file as it was.
C4_Idempotence ==
  [][(pc = "returned" /\ runs' = runs + 1 /\ ~force') =>
       /\ pc' = "returned"
       /\ trace' = << <<"short_circuit">> >>
       /\ UNCHANGED <<partial, final, cache>>]_vars

\* C5: the merge begins only after process_chunk has returned for every chunk
\* 0..C-1, each partial file not yet merged then holding its chunk's complete
\* output; and in a run in which a process_chunk call failed the merge never
\* begins and no final file is opened.
C5_MergeBarrier ==
  /\ (pc \in {"merge_open", "merge_copy"} \/ \E f \in FormSet : Occurrences(<<"open", f>>) > 0) =>
       /\ \A i \in Chunks : Occurrences(<<"process_chunk", i>>) = 1
       /\ \A i \in Chunks, f \in FormSet :
            Occurrences(<<"open", f>>) > 0 =>
              FirstIndex(<<"process_chunk", i>>) < FirstIndex(<<"open", f>>)
       /\ \A i \in Chunks : Occurrences(<<"chunk_failed", i>>) = 0
  /\ pc \in {"merge_open", "merge_copy"} =>
       \A i \in Chunks, j \in 1..3 :
         (j > form \/ (j = form /\ (pc = "merge_open" \/ i >= chunk))) =>
           partial[Forms[j]][i] = File(ChunkOutput(Forms[j], i))
  /\ (\E i \in Chunks : Occurrences(<<"chunk_failed", i>>) > 0) =>
       /\ pc = "failed"
       /\ \A f \in FormSet : Occurrences(<<"open", f>>) = 0

C5_Witness ==
  /\ pc = "merge_open"
  /\ form = 1
  /\ cpus = 3
  /\ \A i \in Chunks : partial["tsv"][i].exists

C5_WitnessFailed ==
  /\ pc = "failed"
  /\ cpus = 3
  /\ Occurrences(<<"process_chunk", 0>>) = 1
  /\ Occurrences(<<"chunk_failed", 1>>) = 1

\* C6: a line that does not split into exactly 4 fields is dropped without an
\* error and the following lines are still processed: the output of a
\* completed run holds, in corpus order, one record for each line of exactly
\* 4 fields, so one malformed line gives one record fewer than input lines.
C6_MalformedDropped ==
  Completed =>
    LET out == IF cpus = 1 THEN partial["tsv"][0].data ELSE final["tsv"].data
        good == SelectSeq(corpus, FourFields)
        bad == {k \in 1..Len(corpus) : Len(corpus[k]) # 4}
    IN /\ Len(out) = Len(corpus) - Cardinality(bad)
       /\ \A k \in 1..Len(out) : out[k][1] = good[k][1]
       /\ \A k \in 1..Len(trace) : trace[k][1] # "error"

C6_Witness ==
  /\ Completed
  /\ Len(corpus) = 3
  /\ Len(corpus[2]) = 3
  /\ cpus = 1
  /\ Len(partial["tsv"][0].data) = 2
  /\ partial["tsv"][0].data[2][1] = "D3"

\* C7 (as stated): a record whose raw sub-word tokens, boundary tokens
\* stripped, are "play", "##ing" has the normalized text "playing".
C7_RoundTrip ==
  \A i \in Chunks :
    partial["bert"][i].exists =>
      \A k \in 1..Len(partial["bert"][i].data) :
        (/\ partial["bert"][i].data[k][2] = <<play, ing>>
         /\ k <= Len(partial["tsv"][i].data)) =>
          partial["tsv"][i].data[k][2] = playing

\* C7 (amended): the normalized text drops the boundary tokens and the "##"
\* markers and keeps the sub-words separated by single spaces: the tokenizer
\* output "[CLS]", "play", "##ing", "[SEP]" gives the raw token record
\* "play", "##ing" and the normalized text "play ing" in both text forms.
C7_NormalizedText ==
  \A i \in Chunks :
    partial["tsv"][i].exists =>
      \A k \in 1..Len(partial["tsv"][i].data) :
        LET id == partial["tsv"][i].data[k][1]
            src == SelectSeq(corpus, LAMBDA l : l[1] = id)[1]
        IN EncodeTokens(<<src[2], src[3], src[4]>>) = <<CLS, play, ing, SEP>> =>
             /\ partial["tsv"][i].data[k][2] = <<"p", "l", "a", "y", " ", "i", "n", "g">>
             /\ k <= Len(partial["bert"][i].data) =>
                  partial["bert"][i].data[k][2] = <<play, ing>>
             /\ k <= Len(partial["trec"][i].data) =>
                  partial["trec"][i].data[k][3] = <<"p", "l", "a", "y", " ", "i", "n", "g">>

C7_Witness ==
  /\ partial["tsv"][0].exists
  /\ Len(partial["tsv"][0].data) >= 1
  /\ partial["bert"][0].data[1][2] = <<play, ing>>
  /\ partial["tsv"][0].data[1][2] = <<"p", "l", "a", "y", " ", "i", "n", "g">>

\* C8 (as stated): a completed run with one worker on a corpus of one
\* well-formed record D1 leaves the three final files with one record each,
\* keyed D1.
C8_SingleWorker ==
  (Completed /\ cpus = 1 /\ corpus = <<GoodLine(1)>>) =>
    \A f \in FormSet :
      /\ final[f].exists
      /\ Len(final[f].data) = 1
      /\ DocId(1) \in {final[f].data[1][j] : j \in 1..2}

\* C10 (as stated): in a completed run, for every C >= 1, each partial file is
\* written by exactly one process_chunk call, read once by the merge, and
\* removed, so none remains when the run returns.
C10_PartialLifecycle ==
  Completed =>
    \A i \in Chunks :
      /\ Occurrences(<<"process_chunk", i>>) = 1
      /\ \A f \in FormSet :
           /\ Occurrences(<<"copy", f, i>>) = 1
           /\ Occurrences(<<"remove", f, i>>) = 1
           /\ ~partial[f][i].exists

\* C9: in a call of tokenize_queries, for each of the two query files whose
\* block is executed and whose lines all have two fields: the block leaves
\* both outputs as they were and calls the tokenizer zero times if and only if
\* both outputs existed and the file's flag is not forced; otherwise both
\* outputs are rewritten with one line per query, in input order.
C9_QuerySkip ==
  [][\A q \in QFiles :
       (/\ qlog'[q].status \in {"skipped", "tokenized"}
        /\ \A k \in 1..Len(qsrc[q].data) : Len(qsrc[q].data[k]) = 2) =>
         IF qout[q]["tokenized"].exists /\ qout[q]["bert"].exists /\ ~qlog'[q].forced
         THEN /\ qlog'[q].status = "skipped"
              /\ qlog'[q].calls = 0
              /\ qout'[q] = qout[q]
         ELSE /\ qlog'[q].status = "tokenized"
              /\ qlog'[q].calls = Len(qsrc[q].data)
              /\ \A e \in QKinds :
                   /\ qout'[q][e].exists
                   /\ Len(qout'[q][e].data) = Len(qsrc[q].data)
                   /\ \A k \in 1..Len(qsrc[q].data) :
                        qout'[q][e].data[k][1] = qsrc[q].data[k][1]]_vars

C9_Witness ==
  /\ qlog["train"].status = "skipped"
  /\ qlog["dev"].status = "tokenized"
  /\ ~qlog["dev"].forced
  /\ Len(qsrc["dev"].data) = 2
  /\ Len(qout["dev"]["tokenized"].data) = 2
  /\ qout["train"]["tokenized"] = File(<<>>)
  /\ Len(qsrc["train"].data) = 2

Spec == Init /\ [][Next]_vars

====
